---- MODULE Spec2Model ----
(***************************************************************************)
(* Model of the infographics labeling service (backend/main.py): the       *)
(* in-memory catalog lifespan_data["infographics"], the label store        *)
(* lifespan_data["labels"], and the FastAPI handlers that read and write   *)
(* them.  Every handler records the response it sends in resp, so that     *)
(* properties can speak about what a caller observes.                      *)
(***************************************************************************)
EXTENDS Integers, Sequences, FiniteSets, TLC

VARIABLES
    infographics,   \* lifespan_data["infographics"]: list of item dicts
    labels,         \* lifespan_data["labels"]: list of label dicts
    resp,           \* the last request served and the response it got
    pc,             \* position of a running reload_data coroutine
    gen,            \* ghost: how many times each of the two lists was replaced
    worker,         \* the threadpool worker that runs the sync handler get_labels
    frame,          \* locals of a running get_category_stats coroutine
    source,         \* ghost: the data file the last load_data_from_json read
    session         \* st.session_state of the frontend, and what its last run did

vars == <<infographics, labels, resp, pc, gen, worker, frame, source, session>>

(***************************************************************************)
(* Bounds of the model.                                                    *)
(***************************************************************************)
MaxItems == 2       \* add_infographic is not taken beyond this catalog length
MaxLabels == 2      \* add_label does not store beyond this label-store length
MaxReloads == 2     \* reloads followed in the interleaved specification

(***************************************************************************)
(* Values.  A Python str is a sequence of characters; an absent Optional   *)
(* query parameter is None.                                                *)
(***************************************************************************)
None == "None"
Titles == {"A", "B"}
Categories == {"Maps", "Charts"}

\* Infographic.model_dump(): the handlers read only title and category;
\* description, tags and img_url are carried along and never inspected.
Items == [title : Titles, category : Categories]

Item(t, c) == [title |-> t, category |-> c]

\* Python truthiness of an Optional[str] query parameter (`if category:`).
truthy(category) == category # None /\ category # ""

(***************************************************************************)
(* QA pairs are Dict[str, str]: a key may be missing.                      *)
(***************************************************************************)
good == [question |-> <<"q">>, answer |-> <<"a">>]
emptyQ == [question |-> <<>>, answer |-> <<"x">>]
emptyA == [question |-> <<"q">>, answer |-> <<>>]
blankQ == [question |-> <<" ">>, answer |-> <<"a">>]
noAnswer == [question |-> <<"q">>]

\* qa_pairs payloads a client submits
QAInputs ==
    { <<>>, <<good>>, <<blankQ>>, <<emptyQ>>, <<noAnswer>>,
      <<emptyQ, good>>, <<good, emptyA>>, <<good, emptyA, good>> }

\* Label.model_dump(): tags, labeled_by and labeled_at are stored and never read
Label(t, c, qa_pairs) == [infographic_title |-> t, category |-> c, qa_pairs |-> qa_pairs]

\* Label payloads a client submits: every title and category with a complete
\* pair, and every qa_pairs payload for one title and category (add_label
\* looks at nothing but qa_pairs before it stores the label).
LabelInputs ==
    { Label(t, c, <<good>>) : t \in Titles, c \in Categories }
        \cup { Label("A", "Maps", qa_pairs) : qa_pairs \in QAInputs }

\* the label payloads of the specifications that are not about validation
ConcLabelInputs == { Label("A", "Maps", <<good>>), Label("B", "Charts", <<emptyQ>>) }

\* category query parameters a client sends
CategoryArgs == {None, ""} \cup Categories

(***************************************************************************)
(* load_data_from_json: the data file holds a document with a "metadata"   *)
(* array, or opening, parsing or indexing it raises; the exception is      *)
(* caught and [] is returned.                                              *)
(***************************************************************************)
Readable(metadata) == [readable |-> TRUE, metadata |-> metadata]
Unreadable == [readable |-> FALSE, metadata |-> <<>>]

DataFiles ==
    { Unreadable,
      Readable(<<Item("A", "Maps"), Item("B", "Maps")>>),
      Readable(<<Item("A", "Maps"), Item("B", "Charts")>>) }

\* metadata["metadata"] is returned as it is parsed: its records are not
\* checked against Infographic
load_data_from_json(file) == IF file.readable THEN file.metadata ELSE <<>>

\* documents that parse and have "metadata", with a record that lacks a field
NoCategory == [title |-> "A"]
NoTitle == [category |-> "Maps"]

LoadFiles ==
    DataFiles \cup { Readable(<<NoCategory>>),
                     Readable(<<Item("A", "Maps"), NoCategory>>),
                     Readable(<<Item("B", "Maps"), NoTitle>>) }

\* info[key] raises KeyError for some record of xs
lacks(xs, key) == \E i \in 1..Len(xs) : key \notin DOMAIN xs[i]

(***************************************************************************)
(* View computations, as the handlers compute them.                        *)
(***************************************************************************)
\* the matches are collected newest first
by_category_reversed(xs, category) ==
    LET kept == SelectSeq(xs, LAMBDA x : x.category = category)
    IN  [i \in 1..Len(kept) |-> kept[Len(kept) + 1 - i]]

by_category(xs, category) == SelectSeq(xs, LAMBDA x : x.category = category)

\* get_infographics
infographics_of(infos, category) ==
    IF truthy(category) THEN by_category(infos, category) ELSE infos

\* only the first label is looked at
labeled_titles_first(ls) == IF ls = <<>> THEN {} ELSE {ls[1].infographic_title}

\* only the newest label is looked at
labeled_titles_last(ls) == IF ls = <<>> THEN {} ELSE {ls[Len(ls)].infographic_title}

\* labeled_titles = set(label["infographic_title"] for label in labels)
labeled_titles(ls) == { ls[i].infographic_title : i \in 1..Len(ls) }

\* get_unlabeled_infographics
unlabeled_of(infos, ls, category) ==
    LET unlabeled == SelectSeq(infos, LAMBDA info : info.title \notin labeled_titles(ls))
    IN  IF truthy(category) THEN by_category(unlabeled, category) ELSE unlabeled

\* get_labels
labels_of(ls, category) ==
    IF truthy(category) /\ category # "All" THEN by_category(ls, category) ELSE ls

\* get_categories: list(set(...)), in no particular order
categories_of(infos) == { infos[i].category : i \in 1..Len(infos) }

\* items counted by distinct title
total_of_distinct(infos, category) ==
    Cardinality({ infos[i].title : i \in { j \in 1..Len(infos) : infos[j].category = category } })

total_of(infos, category) == Len(by_category(infos, category))

\* labels counted by distinct item
labeled_of_distinct(ls, category) ==
    Cardinality({ ls[i].infographic_title : i \in { j \in 1..Len(ls) : ls[j].category = category } })

labeled_of(ls, category) == Len(by_category(ls, category))

\* max(0, total - labeled)
unlabeled_count_clamped(total, labeled) == IF total < labeled THEN 0 ELSE total - labeled

unlabeled_count(total, labeled) == total - labeled

\* one entry for every category of the catalog or of the label store
stats_of_all(infos, ls) ==
    [category \in categories_of(infos) \cup categories_of(ls) |->
        LET total == total_of(infos, category)
            labeled == labeled_of(ls, category)
        IN  [total |-> total, labeled |-> labeled,
             unlabeled |-> unlabeled_count(total, labeled)]]

\* get_category_stats
stats_of(infos, ls) ==
    [category \in categories_of(infos) |->
        LET total == total_of(infos, category)
            labeled == labeled_of(ls, category)
        IN  [total |-> total, labeled |-> labeled,
             unlabeled |-> unlabeled_count(total, labeled)]]

\* add_label's check of one pair: `not qa.get("question") or not qa.get("answer")`
falsy(qa, key) == key \notin DOMAIN qa \/ Len(qa[key]) = 0

incomplete(qa) == falsy(qa, "question") \/ falsy(qa, "answer")

\* only the first pair is checked
rejected_first(qa_pairs) == qa_pairs # <<>> /\ incomplete(qa_pairs[1])

rejected(qa_pairs) == \E i \in 1..Len(qa_pairs) : incomplete(qa_pairs[i])

\* an earlier label of the same item is replaced
store_replacing(ls, label) ==
    Append(SelectSeq(ls, LAMBDA l : l.infographic_title # label.infographic_title), label)

\* lifespan_data["labels"].append(label.model_dump())
store(ls, label) == Append(ls, label)

\* str.strip(): leading and trailing whitespace removed
RECURSIVE lstrip(_)
lstrip(s) == IF s # <<>> /\ Head(s) = " " THEN lstrip(Tail(s)) ELSE s

RECURSIVE rstrip(_)
rstrip(s) == IF s # <<>> /\ s[Len(s)] = " " THEN rstrip(SubSeq(s, 1, Len(s) - 1)) ELSE s

strip(s) == rstrip(lstrip(s))

(***************************************************************************)
(* State after the lifespan startup.                                       *)
(***************************************************************************)
\* A handler on the event loop runs in one state of the two lists; seen
\* records the generation of each list at that moment.
Response(op, arg, status, body) ==
    [op |-> op, arg |-> arg, status |-> status, body |-> body, seen |-> gen]

Idle == [state |-> "idle", category |-> None, seen |-> 0, detached |-> FALSE, list |-> <<>>]

\* no get_category_stats is running
NoFrame == [todo |-> {}, stats |-> <<>>]

\* the last run of the labeling page did not reach `infographics[current_index]`
NoRead == [made |-> FALSE, index |-> 0, len |-> 0]

\* the last run did not post a submitted form
NoForm == [tags |-> <<>>, qa_pairs |-> <<>>]

NoLabel == [infographic_title |-> None, category |-> None, tags |-> <<>>, qa_pairs |-> <<>>]

\* main(), lines 19-22: a new browser session
NewSession ==
    [current_index |-> 0, selected_category |-> None,
     read |-> NoRead, form |-> NoForm, posting |-> FALSE, label_data |-> NoLabel]

\* lifespan, lines 47-48
startup(files) ==
    /\ \E file \in files :
        /\ source = file
        /\ infographics = load_data_from_json(file)
    /\ labels = <<>>
    /\ pc = "idle"
    /\ gen = [infographics |-> 0, labels |-> 0]
    /\ worker = Idle
    /\ frame = NoFrame
    /\ session = NewSession
    /\ resp = Response("startup", None, 200, None)

Init == startup(DataFiles)

\* a coroutine may start while another one is in the middle of its body
loop_shared == TRUE

\* An async handler runs on the event loop, which runs one coroutine at a
\* time: it starts only when no other coroutine is in the middle of its body.
loop_free == pc = "idle"

conc == <<pc, gen, worker, frame>>

(***************************************************************************)
(* Handlers.                                                               *)
(***************************************************************************)
\* an exception that leaves a handler is answered with status 500
ServerError(op, arg) == Response(op, arg, 500, "Internal Server Error")

get_infographics(category) ==
    /\ loop_free
    /\ resp' = IF truthy(category) /\ lacks(infographics, "category")
               THEN ServerError("get_infographics", category)
               ELSE Response("get_infographics", category, 200,
                             infographics_of(infographics, category))
    /\ UNCHANGED <<infographics, labels, source, conc>>

\* the filtered list is assigned back to lifespan_data["infographics"]
get_unlabeled_infographics_inplace(category) ==
    /\ loop_free
    /\ infographics' = unlabeled_of(infographics, labels, category)
    /\ resp' = Response("get_unlabeled_infographics", category, 200, infographics')
    /\ UNCHANGED <<labels, source, conc>>

get_unlabeled_infographics(category) ==
    /\ loop_free
    /\ resp' = IF \/ lacks(infographics, "title")
                  \/ truthy(category)
                        /\ lacks(unlabeled_of(infographics, labels, None), "category")
               THEN ServerError("get_unlabeled_infographics", category)
               ELSE Response("get_unlabeled_infographics", category, 200,
                             unlabeled_of(infographics, labels, category))
    /\ UNCHANGED <<infographics, labels, source, conc>>

\* an item whose title the catalog already holds is not appended
add_infographic_dedup(infographic) ==
    /\ loop_free
    /\ Len(infographics) < MaxItems
    /\ infographics' =
            IF \E i \in 1..Len(infographics) : infographics[i].title = infographic.title
            THEN infographics
            ELSE Append(infographics, infographic)
    /\ resp' = Response("add_infographic", infographic, 200, "Infographic added successfully")
    /\ UNCHANGED <<labels, source, conc>>

add_infographic(infographic) ==
    /\ loop_free
    /\ Len(infographics) < MaxItems
    /\ infographics' = Append(infographics, infographic)
    /\ resp' = Response("add_infographic", infographic, 200, "Infographic added successfully")
    /\ UNCHANGED <<labels, source, conc>>

add_label(label) ==
    /\ loop_free
    /\ IF rejected(label.qa_pairs)
       THEN /\ resp' = Response("add_label", label, 400,
                                "Each QA pair must have both question and answer")
            /\ UNCHANGED labels
       ELSE /\ Len(labels) < MaxLabels
            /\ labels' = store(labels, label)
            /\ resp' = Response("add_label", label, 200, "Label submitted successfully")
    /\ UNCHANGED <<infographics, source, conc>>

get_categories ==
    /\ loop_free
    /\ resp' = IF lacks(infographics, "category")
               THEN ServerError("get_categories", None)
               ELSE Response("get_categories", None, 200, categories_of(infographics))
    /\ UNCHANGED <<infographics, labels, source, conc>>

get_category_stats ==
    /\ loop_free
    /\ resp' = IF lacks(infographics, "category")
               THEN ServerError("get_category_stats", None)
               ELSE Response("get_category_stats", None, 200, stats_of(infographics, labels))
    /\ UNCHANGED <<infographics, labels, source, conc>>

\* get_labels with no other request in flight
get_labels(category) ==
    /\ loop_free
    /\ resp' = Response("get_labels", category, 200, labels_of(labels, category))
    /\ UNCHANGED <<infographics, labels, source, conc>>

\* the labels survive the reload
cleared_kept(ls) == ls

\* the list reload_data assigns to lifespan_data["labels"]
cleared(ls) == <<>>

\* reload_data with no other request in flight, the data file one of files
reload_data_of(files) ==
    /\ loop_free
    /\ \E file \in files :
        /\ source' = file
        /\ infographics' = load_data_from_json(file)
    /\ labels' = cleared(labels)
    /\ resp' = Response("reload_data", None, 200, infographics')
    /\ UNCHANGED conc

reload_data == reload_data_of(DataFiles)

\* requests of API clients; the frontend session is not involved
Next ==
    \/ \E category \in CategoryArgs : get_infographics(category) /\ UNCHANGED session
    \/ \E category \in CategoryArgs : get_unlabeled_infographics(category) /\ UNCHANGED session
    \/ \E infographic \in Items : add_infographic(infographic) /\ UNCHANGED session
    \/ \E label \in LabelInputs : add_label(label) /\ UNCHANGED session
    \/ \E category \in CategoryArgs \cup {"All"} : get_labels(category) /\ UNCHANGED session
    \/ get_categories /\ UNCHANGED session
    \/ get_category_stats /\ UNCHANGED session
    \/ reload_data /\ UNCHANGED session

Spec == Init /\ [][Next]_vars

(***************************************************************************)
(* The service with data files of any content.                             *)
(***************************************************************************)
InitLoad == startup(LoadFiles)

NextLoad ==
    \/ reload_data_of(LoadFiles) /\ UNCHANGED session
    \/ \E category \in {None, "Maps"} : get_infographics(category) /\ UNCHANGED session
    \/ \E category \in {None, "Maps"} : get_unlabeled_infographics(category) /\ UNCHANGED session
    \/ \E infographic \in Items : add_infographic(infographic) /\ UNCHANGED session
    \/ \E label \in ConcLabelInputs : add_label(label) /\ UNCHANGED session
    \/ get_labels(None) /\ UNCHANGED session
    \/ get_categories /\ UNCHANGED session
    \/ get_category_stats /\ UNCHANGED session

SpecLoad == InitLoad /\ [][NextLoad]_vars

(***************************************************************************)
(* Requests in flight together.  The async handlers are coroutines on the  *)
(* one event loop and contain no await, so each runs from start to end     *)
(* before the loop starts another; reload_data is one of them, and its two *)
(* assignments are two steps here.  get_labels is a plain def: a thread of *)
(* the pool runs it, at any moment, also between the two assignments.      *)
(***************************************************************************)
\* reload_data, line 126: the catalog list is replaced by a fresh one
reload_data_load ==
    /\ loop_free
    /\ gen.infographics < MaxReloads
    /\ \E file \in DataFiles :
        /\ source' = file
        /\ infographics' = load_data_from_json(file)
    /\ gen' = [gen EXCEPT !.infographics = @ + 1]
    /\ pc' = "labels_pending"
    /\ UNCHANGED <<labels, resp, worker, frame>>

\* reload_data, lines 127-129: the label list is replaced by a fresh empty
\* one; a thread that already holds the old list keeps that object.
reload_data_clear ==
    /\ pc = "labels_pending"
    /\ labels' = cleared(labels)
    /\ gen' = [gen EXCEPT !.labels = @ + 1]
    /\ worker' = IF worker.state = "read" /\ ~worker.detached
                 THEN [worker EXCEPT !.detached = TRUE, !.list = labels]
                 ELSE worker
    /\ pc' = "idle"
    /\ resp' = [Response("reload_data", None, 200, infographics) EXCEPT !.seen = gen']
    /\ UNCHANGED <<infographics, source, frame>>

\* the loop hands a GET /labels request to a thread of the pool
get_labels_call(category) ==
    /\ loop_free
    /\ worker.state = "idle"
    /\ worker' = [Idle EXCEPT !.state = "called", !.category = category]
    /\ UNCHANGED <<infographics, labels, resp, pc, gen, frame, source>>

\* the thread evaluates lifespan_data["labels"]
get_labels_read ==
    /\ worker.state = "called"
    /\ worker' = [worker EXCEPT !.state = "read", !.seen = gen.labels]
    /\ UNCHANGED <<infographics, labels, resp, pc, gen, frame, source>>

\* the thread filters the list object it holds and returns
get_labels_return ==
    /\ worker.state = "read"
    /\ LET list == IF worker.detached THEN worker.list ELSE labels
       IN  resp' = [Response("get_labels", worker.category, 200,
                             labels_of(list, worker.category))
                        EXCEPT !.seen = [labels |-> worker.seen]]
    /\ worker' = Idle
    /\ UNCHANGED <<infographics, labels, pc, gen, frame, source>>

\* get_category_stats, lines 111-112: stats = {} and the set of categories
\* the for loop will visit
get_category_stats_begin ==
    /\ loop_free
    /\ pc' = "stats_loop"
    /\ frame' = [todo |-> categories_of(infographics), stats |-> <<>>]
    /\ UNCHANGED <<infographics, labels, resp, gen, worker, source>>

\* lines 113-119: one iteration of the loop, the set in no particular order
get_category_stats_iter ==
    /\ pc = "stats_loop"
    /\ \E category \in frame.todo :
        LET total == total_of(infographics, category)
            labeled == labeled_of(labels, category)
            entry == [total |-> total, labeled |-> labeled,
                      unlabeled |-> unlabeled_count(total, labeled)]
        IN  frame' = [todo |-> frame.todo \ {category},
                      stats |-> [c \in DOMAIN frame.stats \cup {category} |->
                                    IF c = category THEN entry ELSE frame.stats[c]]]
    /\ UNCHANGED <<infographics, labels, resp, pc, gen, worker, source>>

\* line 120: return stats
get_category_stats_return ==
    /\ pc = "stats_loop"
    /\ frame.todo = {}
    /\ resp' = Response("get_category_stats", None, 200, frame.stats)
    /\ pc' = "idle"
    /\ frame' = NoFrame
    /\ UNCHANGED <<infographics, labels, gen, worker, source>>

NextConc ==
    \/ reload_data_load /\ UNCHANGED session
    \/ reload_data_clear /\ UNCHANGED session
    \/ \E category \in {None, "Maps"} : get_labels_call(category) /\ UNCHANGED session
    \/ get_labels_read /\ UNCHANGED session
    \/ get_labels_return /\ UNCHANGED session
    \/ \E label \in ConcLabelInputs : add_label(label) /\ UNCHANGED session
    \/ add_infographic(Item("B", "Charts")) /\ UNCHANGED session
    \/ get_infographics("Maps") /\ UNCHANGED session
    \/ get_unlabeled_infographics(None) /\ UNCHANGED session
    \/ get_categories /\ UNCHANGED session
    \/ get_category_stats_begin /\ UNCHANGED session
    \/ get_category_stats_iter /\ UNCHANGED session
    \/ get_category_stats_return /\ UNCHANGED session

SpecConc == Init /\ [][NextConc]_vars

(***************************************************************************)
(* The frontend (frontend/app.py).  Streamlit runs the script once for     *)
(* every interaction; a run sends its requests to the backend one after    *)
(* the other.  The run of "Submit Label" sends two: the GET of the         *)
(* unlabeled list, then the POST of the label.                             *)
(***************************************************************************)
padded == [question |-> <<" ", "q", " ">>, answer |-> <<"a">>]
blankForm == [question |-> <<>>, answer |-> <<>>]

\* what the user typed in the text inputs of the QA pairs (both keys always set)
FormInputs ==
    { <<blankForm>>, <<good>>, <<blankQ>>, <<padded>>, <<good, emptyA>>, <<blankQ, good>> }

\* what the user typed in the text area of the tags
TagInputs == { <<>>, <<" ", "t", " ", "\n", " ", "\n", "u">> }

\* str.split(sep)
RECURSIVE split(_, _)
split(s, sep) ==
    IF \A i \in 1..Len(s) : s[i] # sep
    THEN <<s>>
    ELSE LET i == CHOOSE k \in 1..Len(s) : s[k] = sep /\ \A j \in 1..(k - 1) : s[j] # sep
         IN  <<SubSeq(s, 1, i - 1)>> \o split(SubSeq(s, i + 1, Len(s)), sep)

\* line 201: [tag.strip() for tag in tags.split("\n") if tag.strip()]
tags_of(tags) ==
    LET kept == SelectSeq(split(tags, "\n"), LAMBDA tag : strip(tag) # <<>>)
    IN  [i \in 1..Len(kept) |-> strip(kept[i])]

\* the pairs are kept by truthiness, without strip()
valid_qa_pairs_unstripped(qa_pairs) ==
    SelectSeq(qa_pairs, LAMBDA qa : qa.question # <<>> /\ qa.answer # <<>>)

\* lines 189-192
valid_qa_pairs(qa_pairs) ==
    SelectSeq(qa_pairs, LAMBDA qa : strip(qa.question) # <<>> /\ strip(qa.answer) # <<>>)

\* lines 198-205
label_data(current, tags, qa_pairs) ==
    [infographic_title |-> current.title,
     category |-> session.selected_category,
     tags |-> tags_of(tags),
     qa_pairs |-> valid_qa_pairs(qa_pairs)]

\* select_category: the statistics are fetched, the user picks one of their keys
\* and presses "Start Labeling"; st.columns(0) raises when there is no category
start_labeling ==
    /\ ~session.posting
    /\ get_category_stats
    /\ IF resp'.status = 200 /\ DOMAIN resp'.body # {}
       THEN \E selected \in DOMAIN resp'.body :
                session' = [session EXCEPT !.selected_category = selected,
                                           !.current_index = 0,
                                           !.read = NoRead,
                                           !.form = NoForm]
       ELSE session' = [session EXCEPT !.read = NoRead, !.form = NoForm]

\* lines 90-92 ("Change Category") and 105-107 ("Select Another Category")
change_category ==
    /\ ~session.posting
    /\ truthy(session.selected_category)
    /\ session' = [session EXCEPT !.selected_category = None, !.read = NoRead, !.form = NoForm]
    /\ UNCHANGED <<infographics, labels, resp, source, conc>>

\* lines 113-119: the index after the navigation buttons
navigated(button, current_index, len) ==
    IF button = "Previous" /\ current_index > 0 THEN current_index - 1
    ELSE IF button = "Next" /\ current_index < len - 1 THEN current_index + 1
    ELSE current_index

\* label_infographics, lines 95-205: the list is fetched, the current item is
\* read at current_index (IndexError ends the run), and a submitted form with a
\* valid pair becomes the label to post
label_infographics(button, tags, qa_pairs) ==
    /\ ~session.posting
    /\ truthy(session.selected_category)
    /\ get_unlabeled_infographics(session.selected_category)
    /\ IF resp'.status # 200 \/ resp'.body = <<>>
       THEN session' = [session EXCEPT !.read = NoRead, !.form = NoForm]
       ELSE LET fetched == resp'.body
                index == navigated(button, session.current_index, Len(fetched))
                read == [made |-> TRUE, index |-> index, len |-> Len(fetched)]
            IN  IF index >= Len(fetched)
                    \/ button # "Submit Label"
                    \/ valid_qa_pairs(qa_pairs) = <<>>
                THEN session' = [session EXCEPT !.current_index = index,
                                                !.read = read,
                                                !.form = NoForm]
                ELSE session' = [session EXCEPT
                                    !.read = read,
                                    !.form = [tags |-> tags, qa_pairs |-> qa_pairs],
                                    !.posting = TRUE,
                                    !.label_data = label_data(fetched[index + 1], tags, qa_pairs)]

\* lines 207-217: the POST of the label; on 200 the index moves on when the
\* list fetched in this run has a next position
submit_label ==
    /\ session.posting
    /\ add_label(session.label_data)
    /\ session' = [session EXCEPT
                        !.posting = FALSE,
                        !.label_data = NoLabel,
                        !.current_index =
                            IF resp'.status = 200 /\ @ < session.read.len - 1 THEN @ + 1 ELSE @]

\* main(), lines 30-34: the "Reload Data" button of the sidebar
sidebar_reload ==
    /\ ~session.posting
    /\ reload_data
    /\ session' = [session EXCEPT !.read = NoRead, !.form = NoForm]

NextUI ==
    \/ start_labeling
    \/ change_category
    \/ \E button \in {"none", "Previous", "Next"} : label_infographics(button, <<>>, <<>>)
    \/ \E tags \in TagInputs, qa_pairs \in FormInputs :
            label_infographics("Submit Label", tags, qa_pairs)
    \/ submit_label
    \/ sidebar_reload

SpecUI == Init /\ [][NextUI]_vars

(***************************************************************************)
(* Vocabulary of the properties, independent of the handlers' code.        *)
(***************************************************************************)
\* number of positions of seq that hold x
Occurrences(seq, x) == Cardinality({ i \in 1..Len(seq) : seq[i] = x })

\* number of label records that reference title t
References(t) == Cardinality({ i \in 1..Len(labels) : labels[i].infographic_title = t })

\* number of label records whose category field is c
RecordCount(ls, c) == Cardinality({ i \in 1..Len(ls) : ls[i].category = c })

\* number of catalog items whose category is c
ItemCount(infos, c) == Cardinality({ i \in 1..Len(infos) : infos[i].category = c })

\* a pair with both keys present and both values non-blank after trimming
WellFormedPair(qa) ==
    /\ {"question", "answer"} \subseteq DOMAIN qa
    /\ strip(qa.question) # <<>>
    /\ strip(qa.answer) # <<>>

WellFormed(qa_pairs) ==
    /\ Len(qa_pairs) >= 1
    /\ \A i \in 1..Len(qa_pairs) : WellFormedPair(qa_pairs[i])

\* a pair whose question or answer is the empty string
HasEmptyField(qa) ==
    \/ "question" \in DOMAIN qa /\ qa.question = <<>>
    \/ "answer" \in DOMAIN qa /\ qa.answer = <<>>

Served(op) == resp.op = op

(***************************************************************************)
(* C1: get_unlabeled() with no category returns exactly the catalog items  *)
(* whose title no stored label references: each such item as often as the  *)
(* catalog holds it, every item referenced by a label not at all.          *)
(***************************************************************************)
C1_UnlabeledExact ==
    (Served("get_unlabeled_infographics") /\ resp.arg = None) =>
        \A item \in Items :
            Occurrences(resp.body, item) =
                IF References(item.title) = 0 THEN Occurrences(infographics, item) ELSE 0

C1_Witness ==
    /\ Served("get_unlabeled_infographics") /\ resp.arg = None
    /\ Len(labels) = 2
    /\ \E i, j \in 1..Len(infographics) :
        /\ References(infographics[i].title) = 0
        /\ References(infographics[j].title) >= 1
    /\ Len(resp.body) = 1

(***************************************************************************)
(* C2: a submit_label with an empty qa_pairs sequence fails with a         *)
(* validation error (and stores nothing).                                  *)
(***************************************************************************)
C2_EmptyPairsRejected ==
    (Served("add_label") /\ resp.arg.qa_pairs = <<>>) => resp.status = 400

(***************************************************************************)
(* C3: every stored label has at least one QA pair, and every pair has     *)
(* both question and answer present and non-blank after trimming.          *)
(***************************************************************************)
C3_StoredLabelsWellFormed ==
    \A i \in 1..Len(labels) : WellFormed(labels[i].qa_pairs)

(***************************************************************************)
(* C4: a submit_label in which some pair has an empty question or an empty *)
(* answer, at any position, fails with status 400 and leaves the label     *)
(* store and the catalog exactly as they were.                             *)
(***************************************************************************)
C4_IncompletePairFailsWhole ==
    [][ (resp'.op = "add_label"
            /\ \E i \in 1..Len(resp'.arg.qa_pairs) : HasEmptyField(resp'.arg.qa_pairs[i]))
        => (resp'.status = 400 /\ labels' = labels /\ infographics' = infographics) ]_vars

C4_Witness ==
    /\ Served("add_label") /\ resp.status = 400
    /\ Len(resp.arg.qa_pairs) = 3
    /\ WellFormedPair(resp.arg.qa_pairs[1])
    /\ HasEmptyField(resp.arg.qa_pairs[2])
    /\ WellFormedPair(resp.arg.qa_pairs[3])
    /\ labels # <<>>

(***************************************************************************)
(* C5: a submit_label whose pairs are all well-formed succeeds and appends *)
(* exactly that label at the end of the label store; the earlier records   *)
(* and the catalog are unchanged, also when the item already has a label   *)
(* or is not in the catalog, and afterwards no item of that title is in    *)
(* get_unlabeled().                                                        *)
(***************************************************************************)
C5_WellFormedAppends ==
    [][ (resp'.op = "add_label" /\ WellFormed(resp'.arg.qa_pairs))
        => /\ resp'.status = 200
           /\ Len(labels') = Len(labels) + 1
           /\ labels'[Len(labels')] = resp'.arg
           /\ \A i \in 1..Len(labels) : labels'[i] = labels[i]
           /\ infographics' = infographics
           /\ \A i \in 1..Len(unlabeled_of(infographics', labels', None)) :
                unlabeled_of(infographics', labels', None)[i].title
                    # resp'.arg.infographic_title ]_vars

C5_Witness ==
    /\ Served("add_label") /\ resp.status = 200
    /\ WellFormed(resp.arg.qa_pairs)
    /\ Len(labels) = 2
    /\ labels[1].infographic_title = labels[2].infographic_title
    /\ infographics # <<>>
    /\ \A i \in 1..Len(infographics) : infographics[i].title # labels[2].infographic_title

(***************************************************************************)
(* C6: category_stats()[c].labeled is the number of label records whose    *)
(* category field is c, for every catalog category c; a further label on   *)
(* an already labeled item raises the count of its category by one and     *)
(* leaves get_unlabeled(c) as it was.                                      *)
(***************************************************************************)
C6_LabeledCountsRecords ==
    /\ [](Served("get_category_stats") =>
            \A i \in 1..Len(infographics) :
                LET c == infographics[i].category
                IN  c \in DOMAIN resp.body /\ resp.body[c].labeled = RecordCount(labels, c))
    /\ [][ (resp'.op = "add_label" /\ resp'.status = 200
                /\ References(resp'.arg.infographic_title) >= 1)
           => /\ stats_of(infographics', labels')
                    = [c \in DOMAIN stats_of(infographics, labels) |->
                        LET old == stats_of(infographics, labels)[c]
                            more == IF c = resp'.arg.category THEN 1 ELSE 0
                        IN  [total |-> old.total, labeled |-> old.labeled + more,
                             unlabeled |-> old.unlabeled - more]]
              /\ \A c \in Categories :
                    unlabeled_of(infographics', labels', c)
                        = unlabeled_of(infographics, labels, c) ]_vars

C6_Witness ==
    /\ Served("get_category_stats")
    /\ Len(labels) = 2
    /\ labels[1].infographic_title = labels[2].infographic_title
    /\ \E i \in 1..Len(infographics) :
        /\ infographics[i].title = labels[1].infographic_title
        /\ infographics[i].category # labels[1].category
    /\ labels[1].category \in DOMAIN resp.body
    /\ resp.body[labels[1].category].labeled = 2

(***************************************************************************)
(* C7: category_stats()[c].total is the number of catalog items whose      *)
(* category is c, items of equal title each counted, whatever the label    *)
(* store holds.                                                            *)
(***************************************************************************)
C7_TotalCountsItems ==
    Served("get_category_stats") =>
        \A i \in 1..Len(infographics) :
            LET c == infographics[i].category
            IN  c \in DOMAIN resp.body /\ resp.body[c].total = ItemCount(infographics, c)

C7_Witness ==
    /\ Served("get_category_stats")
    /\ Len(infographics) = 2
    /\ infographics[1] = infographics[2]
    /\ resp.body[infographics[1].category].total = 2
    /\ labels # <<>>

(***************************************************************************)
(* C8: category_stats()[c].unlabeled is total - labeled, not clamped at    *)
(* zero: it is negative when the label records of c outnumber its items.   *)
(***************************************************************************)
C8_UnlabeledIsDifference ==
    Served("get_category_stats") =>
        \A c \in DOMAIN resp.body :
            /\ resp.body[c].unlabeled = resp.body[c].total - resp.body[c].labeled
            /\ resp.body[c].unlabeled = ItemCount(infographics, c) - RecordCount(labels, c)

C8_Witness ==
    /\ Served("get_category_stats")
    /\ \E c \in DOMAIN resp.body :
        /\ RecordCount(labels, c) > ItemCount(infographics, c)
        /\ resp.body[c].unlabeled < 0

(***************************************************************************)
(* C9: after reload_data the label store is empty, the catalog is exactly  *)
(* what the data file yields (nothing add_item appended survives), and     *)
(* get_unlabeled() is the whole new catalog.                               *)
(***************************************************************************)
C9_ReloadResets ==
    [][ resp'.op = "reload_data"
        => /\ labels' = <<>>
           /\ \E file \in DataFiles :
                infographics' = (IF file.readable THEN file.metadata ELSE <<>>)
           /\ resp'.body = infographics'
           /\ unlabeled_of(infographics', labels', None) = infographics' ]_vars

C9_Witness ==
    /\ Served("reload_data")
    /\ labels = <<>>
    /\ Len(infographics) = 2
    /\ unlabeled_of(infographics, labels, None) = infographics

(***************************************************************************)
(* C10: with requests in flight together, no response rests on the new     *)
(* catalog together with the old labels, or the reverse: every handler on  *)
(* the event loop runs in a state in which catalog and label list are of   *)
(* the same reload generation, a reload in progress is never visible to    *)
(* it, and get_labels, the one handler that can run between the two        *)
(* assignments of reload_data, reads the label list alone.                 *)
(***************************************************************************)
C10_ReloadAtomic ==
    /\ \A k1, k2 \in DOMAIN resp.seen : resp.seen[k1] = resp.seen[k2]
    /\ pc = "idle" => gen.infographics = gen.labels

C10_Witness ==
    /\ pc = "labels_pending"
    /\ Served("get_labels")
    /\ resp.seen.labels < gen.infographics
    /\ resp.body # <<>>
    /\ Len(infographics) = 2

(***************************************************************************)
(* C11: with submit_label requests and a category_stats computation in     *)
(* flight together, the stats returned are those of one label store that   *)
(* existed between whole submissions: every category the running           *)
(* computation has counted is counted against the label store as it is     *)
(* now, the response equals the counts of the state it is returned in,     *)
(* and every accepted submission is appended, none overwritten or lost.    *)
(***************************************************************************)
C11_StatsSeeWholeSubmissions ==
    /\ [](pc = "stats_loop" =>
            \A c \in DOMAIN frame.stats :
                /\ frame.stats[c].labeled = RecordCount(labels, c)
                /\ frame.stats[c].total = ItemCount(infographics, c))
    /\ [][ (pc = "stats_loop" /\ pc' = "idle") =>
                \A c \in DOMAIN resp'.body :
                    resp'.body[c].labeled = RecordCount(labels', c) ]_vars
    /\ [][ (labels' # labels /\ pc' = "idle" /\ pc = "idle") =>
                (resp'.op = "add_label" /\ resp'.status = 200
                    /\ labels' = Append(labels, resp'.arg)) ]_vars

C11_Witness ==
    /\ pc = "stats_loop"
    /\ DOMAIN frame.stats # {}
    /\ frame.todo # {}
    /\ Len(labels) = 2
    /\ \E c \in DOMAIN frame.stats : frame.stats[c].labeled = 2

(***************************************************************************)
(* C12: while the catalog is fixed (no add_item, no reload), the items     *)
(* get_unlabeled() returns never grow: after a submit_label step, accepted *)
(* or rejected, and after any query, no item is in the result more often   *)
(* than before.                                                            *)
(***************************************************************************)
C12_UnlabeledOnlyShrinks ==
    [][ (resp'.op \notin {"add_infographic", "reload_data"}
            /\ <<infographics, labels>>' # <<infographics, labels>>) =>
            LET before == unlabeled_of(infographics, labels, None)
                after == unlabeled_of(infographics', labels', None)
            IN  \A item \in Items : Occurrences(after, item) <= Occurrences(before, item) ]_vars

C12_Witness ==
    /\ Served("add_label") /\ resp.status = 200
    /\ Len(labels) = 2
    /\ labels[1].infographic_title # labels[2].infographic_title
    /\ Len(infographics) = 2
    /\ unlabeled_of(infographics, labels, None) = <<>>

(***************************************************************************)
(* C13: the queries get_items, get_unlabeled, get_labels, get_categories   *)
(* and get_category_stats leave catalog and label store as they were, and  *)
(* a get_category_stats directly after another returns the same stats.     *)
(***************************************************************************)
QueryOps ==
    {"get_infographics", "get_unlabeled_infographics", "get_labels",
     "get_categories", "get_category_stats"}

C13_QueriesArePure ==
    [][ /\ resp'.op \in QueryOps => (infographics' = infographics /\ labels' = labels)
        /\ (resp.op = "get_category_stats" /\ resp'.op = "get_category_stats")
                => resp'.body = resp.body ]_vars

C13_Witness ==
    /\ Served("get_category_stats")
    /\ Len(infographics) = 2 /\ Len(labels) = 1
    /\ \E c \in DOMAIN resp.body : resp.body[c].labeled = 1 /\ resp.body[c].total = 1

(***************************************************************************)
(* C14: for get_items, get_unlabeled and get_labels, a supplied category   *)
(* value that matches no item (no label), the empty string included,       *)
(* yields an empty collection, and no query fails.  ("All" is the value    *)
(* get_labels documents as "no filter" and is left out.)                   *)
(***************************************************************************)
C14_UnmatchedFilterEmpty ==
    /\ resp.op \in QueryOps => resp.status = 200
    /\ (resp.op \in {"get_infographics", "get_unlabeled_infographics"}
            /\ resp.arg # None /\ ItemCount(infographics, resp.arg) = 0)
        => resp.body = <<>>
    /\ (Served("get_labels") /\ resp.arg \notin {None, "All"}
            /\ RecordCount(labels, resp.arg) = 0)
        => resp.body = <<>>

(***************************************************************************)
(* C15: when the data file is missing, unreadable or structurally invalid  *)
(* (not a document whose "metadata" is an array of records with title and  *)
(* category), the load at startup or in reload_data yields an empty        *)
(* catalog, never a partial one, reload leaves the label store empty, and  *)
(* the service keeps answering queries.                                    *)
(***************************************************************************)
StructurallyValid(file) ==
    /\ file.readable
    /\ \A i \in 1..Len(file.metadata) : file.metadata[i] \in Items

C15_BadSourceGivesEmptyCatalog ==
    /\ (resp.op \in {"startup", "reload_data"} /\ ~StructurallyValid(source))
        => (infographics = <<>> /\ labels = <<>>)
    /\ resp.op \in QueryOps => resp.status = 200

(***************************************************************************)
(* C16: get_items(category) and get_unlabeled(category) return their items *)
(* in catalog order (the result is a subsequence of the catalog), and      *)
(* get_unlabeled(category) equals the catalog filtered to the category     *)
(* first and then stripped of the labeled items.                           *)
(***************************************************************************)
IsSubsequence(part, whole) ==
    \E at \in [1..Len(part) -> 1..Len(whole)] :
        /\ \A i, j \in 1..Len(part) : i < j => at[i] < at[j]
        /\ \A i \in 1..Len(part) : whole[at[i]] = part[i]

C16_CatalogOrder ==
    (resp.op \in {"get_infographics", "get_unlabeled_infographics"} /\ resp.status = 200) =>
        /\ IsSubsequence(resp.body, infographics)
        /\ (Served("get_unlabeled_infographics") /\ resp.arg \in Categories) =>
                resp.body =
                    SelectSeq(SelectSeq(infographics, LAMBDA info : info.category = resp.arg),
                              LAMBDA info : References(info.title) = 0)

C16_Witness ==
    /\ Served("get_unlabeled_infographics") /\ resp.arg \in Categories
    /\ Len(resp.body) = 2
    /\ resp.body[1] # resp.body[2]

(***************************************************************************)
(* C17: add_item succeeds and appends exactly the given item at the end of *)
(* the catalog, with no check of its title: the earlier items and the      *)
(* label store are unchanged, an item whose title the catalog already      *)
(* holds makes a further entry, and an item whose title a stored label     *)
(* references is absent from get_unlabeled() at once.                      *)
(***************************************************************************)
C17_AddItemAppends ==
    [][ resp'.op = "add_infographic" =>
            /\ resp'.status = 200
            /\ Len(infographics') = Len(infographics) + 1
            /\ infographics'[Len(infographics')] = resp'.arg
            /\ \A i \in 1..Len(infographics) : infographics'[i] = infographics[i]
            /\ labels' = labels
            /\ References(resp'.arg.title) >= 1 =>
                    Occurrences(unlabeled_of(infographics', labels', None), resp'.arg) = 0 ]_vars

C17_Witness ==
    /\ Served("add_infographic")
    /\ Len(infographics) = 2
    /\ infographics[1].title = infographics[2].title
    /\ References(infographics[2].title) >= 1
    /\ unlabeled_of(infographics, labels, None) = <<>>

(***************************************************************************)
(* C18: the keys of category_stats() are exactly the distinct categories   *)
(* of the catalog, the same set get_categories() returns; a label whose    *)
(* category no catalog item has contributes no entry; every entry has a    *)
(* total of at least 1, so labeled / total in the frontend is defined.     *)
(***************************************************************************)
C18_StatsKeysAreCatalogCategories ==
    LET present == { c \in Categories : ItemCount(infographics, c) >= 1 }
    IN  /\ Served("get_category_stats") =>
                /\ DOMAIN resp.body = present
                /\ \A c \in DOMAIN resp.body : resp.body[c].total >= 1
                /\ \A c \in Categories :
                        (RecordCount(labels, c) >= 1 /\ ItemCount(infographics, c) = 0) =>
                            c \notin DOMAIN resp.body
        /\ Served("get_categories") => resp.body = present

C18_Witness ==
    /\ Served("get_category_stats")
    /\ infographics # <<>>
    /\ DOMAIN resp.body # {}
    /\ \E c \in Categories : RecordCount(labels, c) >= 1 /\ ItemCount(infographics, c) = 0

(***************************************************************************)
(* C19: on the labeling page, whenever the fetched unlabeled list is not   *)
(* empty, 0 <= current_index < len(list) holds where the current item is   *)
(* read, after any sequence of Previous, Next, Submit Label, category      *)
(* change and reload.                                                      *)
(***************************************************************************)
C19_IndexInRange ==
    session.read.made =>
        /\ 0 <= session.read.index
        /\ session.read.index < session.read.len

\* a tag as the frontend is to post it: not blank, nothing to trim, one line
CleanTag(tag) ==
    /\ tag # <<>>
    /\ Head(tag) # " "
    /\ tag[Len(tag)] # " "
    /\ \A i \in 1..Len(tag) : tag[i] # "\n"

(***************************************************************************)
(* C20: every label the frontend posts has at least one pair and only      *)
(* pairs that are non-blank after trimming (the pairs of the form that are *)
(* blank after trimming are dropped, and nothing is posted when none       *)
(* remains), has tags that are trimmed and not blank, and is accepted by   *)
(* add_label with status 200 and stored.                                   *)
(***************************************************************************)
C20_FrontendPostsAccepted ==
    /\ session.posting =>
            /\ WellFormed(session.label_data.qa_pairs)
            /\ session.label_data.qa_pairs =
                    SelectSeq(session.form.qa_pairs, WellFormedPair)
            /\ \A i \in 1..Len(session.label_data.tags) : CleanTag(session.label_data.tags[i])
    /\ Served("add_label") =>
            /\ resp.status = 200
            /\ WellFormed(resp.arg.qa_pairs)
            /\ \A i \in 1..Len(resp.arg.tags) : CleanTag(resp.arg.tags[i])
            /\ labels # <<>>
            /\ labels[Len(labels)] = resp.arg

C20_Witness ==
    /\ Served("add_label")
    /\ resp.status = 200
    /\ session.form.qa_pairs = <<blankQ, good>>
    /\ resp.arg.qa_pairs = <<good>>
    /\ resp.arg.tags = << <<"t">>, <<"u">> >>
    /\ labels[Len(labels)] = resp.arg

====
